---- MODULE Spec2Model ----
(***************************************************************************)
(* Model of sagemaker/modules/train/sm_recipes/utils.py: one call of       *)
(* _get_args_from_recipe, from its arguments to the returned bundle or the *)
(* raised exception.                                                       *)
(*                                                                         *)
(* Python values:                                                          *)
(*   Optional[T]  is a sequence of length <= 1: None == << >>, Some(x).    *)
(*   str          is a sequence of one-character strings, so that lower(), *)
(*                split(), startswith() and "in" are computed.             *)
(*   DictConfig   is [cfg |-> two-level mapping, refs |-> the key paths    *)
(*                named by the ${...} interpolations in its values].       *)
(***************************************************************************)
EXTENDS Integers, Sequences, FiniteSets, TLC

VARIABLES
    training_recipe,      \* argument: the recipe reference
    recipe_overrides,     \* argument: Optional[Dict]
    requirements,         \* argument: Optional[str]
    role,                 \* argument: Optional[str]
    compute,              \* argument: the caller's Compute object (mutable)
    pc,                   \* position in _get_args_from_recipe
    training_recipes_cfg, \* local: the registry, None until loaded
    recipe,               \* local: the loaded recipe, None until loaded
    device_type,          \* local: None until _determine_device_type ran
    args,                 \* local: the args dict being built
    attempts,             \* keys passed to _try_resolve_recipe so far
    final_recipe,         \* local: final_recipe
    files,                \* recipe files written by OmegaConf.save
    tmpdirs,              \* prefixes of the temporary directories created
    clones,               \* <<repo, directory>> of every clone made
    returned,             \* None, or Some(<<args, directory>>)
    raised,               \* None, or Some(exception)
    log                   \* the steps of the call, in order

inputs == <<training_recipe, recipe_overrides, requirements, role>>
locals == <<training_recipes_cfg, recipe, device_type, args, attempts, final_recipe>>
effects == <<files, tmpdirs, clones>>
vars == <<inputs, compute, pc, locals, effects, returned, raised, log>>

----------------------------------------------------------------------------
(* Python values *)

None == << >>
Some(x) == <<x>>
EmptyDict == [k \in {} |-> None]

\* dict.get(key) on a mapping whose values are strings or numbers
Has(d, k) == k \in DOMAIN d
Get(d, k) == IF Has(d, k) THEN Some(d[k]) ELSE None
\* truth value of an Optional[int] and of an Optional[str]
TruthyInt(x) == x # None /\ x[1] # 0
TruthyStr(x) == x # None /\ x[1] # << >>
\* recipe.get(section, {})
Section(cfg, k) == IF Has(cfg, k) THEN cfg[k] ELSE EmptyDict

\* str.lower(), for the letters the recipes here use
LowerChar(c) ==
    CASE c = "A" -> "a"
      [] c = "N" -> "n"
      [] c = "O" -> "o"
      [] c = "V" -> "v"
      [] OTHER -> c
Lower(s) == [i \in 1..Len(s) |-> LowerChar(s[i])]

\* str.startswith(prefix)
StartsWith(s, prefix) ==
    /\ Len(prefix) <= Len(s)
    /\ SubSeq(s, 1, Len(prefix)) = prefix

\* sub in s
Contains(sub, s) ==
    \E i \in 1..(Len(s) + 1) :
        /\ i + Len(sub) - 1 <= Len(s)
        /\ SubSeq(s, i, i + Len(sub) - 1) = sub

\* str.split(sep) for a one-character separator
RECURSIVE SplitFrom(_, _, _)
SplitFrom(s, sep, cur) ==
    IF s = << >> THEN <<cur>>
    ELSE IF Head(s) = sep THEN <<cur>> \o SplitFrom(Tail(s), sep, << >>)
    ELSE SplitFrom(Tail(s), sep, Append(cur, Head(s)))
Split(s, sep) == SplitFrom(s, sep, << >>)

----------------------------------------------------------------------------
(* Pure functions of utils.py *)

Roots == <<None, Some("recipes"), Some("training")>>

\* A key path exists in a (two-level) recipe mapping
InCfg(cfg, p) ==
    /\ Len(p) \in {1, 2}
    /\ Has(cfg, p[1])
    /\ Len(p) = 2 => Has(cfg[p[1]], p[2])

\* OmegaConf.resolve(recipe) raises no OmegaConfBaseException: every
\* interpolation names a node of the tree it is resolved in. `key` is None
\* or Some(k); with Some(k) the tree is DictConfig({k: recipe}).
Resolves(r, key) ==
    \A p \in r.refs :
        IF key = None THEN InCfg(r.cfg, p)
        ELSE /\ Len(p) >= 2
             /\ p[1] = key[1]
             /\ InCfg(r.cfg, Tail(p))

\* _try_resolve_recipe: None on an expression error, else the recipe (taken
\* back out of the wrapping key).
_try_resolve_recipe(r, key) ==
    IF ~Resolves(r, key) THEN None
    ELSE IF key = None THEN Some(r)
    ELSE LET wrapped == [k \in {key[1]} |-> r] IN Some(wrapped[key[1]])

\* _determine_device_type, given the family (instance_type.split(".")[1])
DeviceOfFamily_ShortPrefix(instance_family) ==
    IF StartsWith(instance_family, <<"p">>) \/ StartsWith(instance_family, <<"g">>)
    THEN "gpu"
    ELSE IF StartsWith(instance_family, <<"t">>) THEN "trainium"
    ELSE "cpu"

DeviceOfFamily(instance_family) ==
    IF StartsWith(instance_family, <<"p">>) \/ StartsWith(instance_family, <<"g">>)
    THEN "gpu"
    ELSE IF StartsWith(instance_family, <<"t", "r", "n">>) THEN "trainium"
    ELSE "cpu"

_determine_device_type(instance_type) ==
    DeviceOfFamily(Split(instance_type, ".")[2])

\* OmegaConf.merge(recipe, recipe_overrides) on mappings: deep merge, the
\* second argument wins at every path it has.
MergeSection(a, b) ==
    [k \in DOMAIN a \cup DOMAIN b |-> IF Has(b, k) THEN b[k] ELSE a[k]]

OmegaConfMerge(a, b) ==
    [k \in DOMAIN a \cup DOMAIN b |->
        IF Has(a, k) /\ Has(b, k) THEN MergeSection(a[k], b[k])
        ELSE IF Has(b, k) THEN b[k]
        ELSE a[k]]

\* _get_trainining_recipe_gpu_model_name_and_script
model_type_to_script ==
    << <<"llama",    <<"l","l","a","m","a">>,             "llama_pretrain.py">>,
       <<"mistral",  <<"m","i","s","t","r","a","l">>,     "mistral_pretrain.py">>,
       <<"mixtral",  <<"m","i","x","t","r","a","l">>,     "mixtral_pretrain.py">>,
       <<"deepseek", <<"d","e","e","p","s","e","e","k">>, "deepseek_pretrain.py">> >>

\* index of the first family the model type starts with, 0 if none
ModelFamily(model_type) ==
    LET hits == {i \in 1..Len(model_type_to_script) :
                    StartsWith(model_type, model_type_to_script[i][2])}
    IN IF hits = {} THEN 0 ELSE CHOOSE i \in hits : \A j \in hits : i <= j

\* _is_nova_recipe
NovaMarker == <<"a","m","a","z","o","n",".","n","o","v","a">>

_is_nova_recipe_CaseSensitive(r) ==
    LET run_config == Section(r.cfg, "run")
        model_type == IF Has(run_config, "model_type") THEN run_config.model_type ELSE << >>
        has_nova_model == /\ model_type # << >>
                          /\ Contains(NovaMarker, model_type)
                          /\ Has(run_config, "model_name_or_path")
        training_config == Section(r.cfg, "training_config")
        has_distillation == Has(training_config, "distillation_data")
    IN has_nova_model \/ has_distillation

_is_nova_recipe(r) ==
    LET run_config == Section(r.cfg, "run")
        model_type == Lower(IF Has(run_config, "model_type")
                            THEN run_config.model_type ELSE << >>)
        has_nova_model == /\ model_type # << >>
                          /\ Contains(NovaMarker, model_type)
                          /\ Has(run_config, "model_name_or_path")
        training_config == Section(r.cfg, "training_config")
        has_distillation == Has(training_config, "distillation_data")
    IN has_nova_model \/ has_distillation

----------------------------------------------------------------------------
(* The calls explored *)

MaxInstanceCount == 1
MaxNumNodes == 2

Llama == <<"l","l","a","m","a","3">>
Gpt == <<"g","p","t">>
NovaMicro == <<"A","m","a","z","o","n",".","N","o","v","a","-","m">>
S3Model == <<"s","3",":","/","/","b">>
HubModel == <<"n","o","v","a","-","l">>
Data == <<"d">>
Key == <<"k">>
Arn == <<"a","r","n">>
ReqPath == <<"r",".","t","x","t">>

Trainer(n) == [num_nodes |-> n, devices |-> 8]
Model == [model_type |-> Llama]

\* Recipe mappings. Sections are mappings, their values strings or numbers.
StandardCfgs ==
    {[trainer |-> Trainer(n), model |-> Model] : n \in 1..MaxNumNodes}
    \cup {[model |-> Model],
          [trainer |-> [devices |-> 8], model |-> Model],
          [trainer |-> Trainer(1)],
          [trainer |-> Trainer(1), model |-> [name |-> Llama]],
          [trainer |-> Trainer(1), model |-> [model_type |-> Gpt]],
          [trainer |-> Trainer(1), model |-> Model, run |-> [model_type |-> NovaMicro]]}

NovaCfgs ==
    {[run |-> [model_type |-> NovaMicro, model_name_or_path |-> S3Model, replicas |-> 2]],
     [run |-> [model_type |-> NovaMicro, model_name_or_path |-> HubModel]],
     [run |-> [replicas |-> 1], training_config |-> [distillation_data |-> Data, kms_key |-> Key]],
     [run |-> [replicas |-> 1], training_config |-> [distillation_data |-> Data]],
     [trainer |-> Trainer(1), model |-> Model, training_config |-> [distillation_data |-> << >>]]}

\* Recipes with interpolations: resolvable as they are, only under
\* "recipes", only under "training", and under no root.
Plain(cfg) == [cfg |-> cfg, refs |-> {}]
GpuCfg == [trainer |-> Trainer(1), model |-> Model]
DistillCfg ==
    [run |-> [replicas |-> 1], training_config |-> [distillation_data |-> Data, kms_key |-> Key]]

Recipes ==
    {Plain(c) : c \in StandardCfgs \cup NovaCfgs}
    \cup {[cfg |-> c, refs |-> rs] :
            c \in {GpuCfg},
            rs \in {{<<"trainer", "num_nodes">>}, {<<"recipes", "trainer", "num_nodes">>},
                    {<<"training", "model", "model_type">>}, {<<"exp", "name">>}}}
    \cup {[cfg |-> c, refs |-> rs] :
            c \in {DistillCfg},
            rs \in {{<<"recipes", "run", "replicas">>}, {<<"training", "run", "replicas">>},
                    {<<"exp", "name">>}}}

Overrides ==
    {None,
     Some([trainer |-> [num_nodes |-> MaxNumNodes], run |-> [replicas |-> 1]]),
     Some([training_config |-> [kms_key |-> Arn]])}

\* A recipe reference: a path ending in .yaml that is a local file, one that
\* is not (a URL), a recipe name, or a loaded DictConfig. `content` is the
\* recipe the reference stands for.
Forms == {"yaml_local", "yaml_remote", "name", "object"}

References == [form : Forms, content : Recipes]

\* isinstance(training_recipe, str), training_recipe.endswith(".yaml") and
\* os.path.isfile(training_recipe)
IsStr(ref) == ref.form # "object"
EndsWithYaml(ref) == ref.form \in {"yaml_local", "yaml_remote"}
IsFile(ref) == ref.form = "yaml_local"

InstanceTypes ==
    {None,
     Some(<<"m","l",".","p","4","d",".","x">>),
     Some(<<"m","l",".","g","5",".","x">>),
     Some(<<"m","l",".","t","r","n","1",".","x">>),
     Some(<<"m","l",".","t","3",".","x">>),
     Some(<<"l","o","c","a","l">>)}

Computes ==
    [instance_type : InstanceTypes,
     instance_count : {None} \cup {Some(n) : n \in 0..MaxInstanceCount}]

Roles == {None, Some(<< >>), Some(Arn)}

\* training_recipes.json, the registry (a data file of the package)
Registry ==
    [launcher_repo |-> "launcher_repo",
     adapter_repo |-> "adapter_repo",
     neuron_dist_repo |-> "neuron_dist_repo",
     gpu_image |-> [is_str |-> FALSE, value |-> "pytorch-smp"],
     neuron_image |-> [is_str |-> TRUE, value |-> "neuron_image"]]

SM_RECIPE_YAML == "recipe.yaml"

\* The caller's Compute object, as the bundle refers to it
CallerCompute == "compute"

\* an exception: its type, its message and the value the message embeds
Exception(type, msg, arg) == [type |-> type, msg |-> msg, arg |-> arg]
ValueError(msg) == Exception("ValueError", msg, "")
RuntimeError(msg) == Exception("RuntimeError", msg, "")

Main == "_get_args_from_recipe"
Nova == "_get_args_from_nova_recipe"
Done == <<"caller", "done">>

Init ==
    /\ training_recipe \in References
    /\ recipe_overrides \in Overrides
    /\ requirements \in {None, Some(ReqPath)}
    /\ role \in Roles
    /\ compute \in Computes
    /\ pc = <<Main, "start">>
    /\ training_recipes_cfg = None
    /\ recipe = None
    /\ device_type = None
    /\ args = EmptyDict
    /\ attempts = << >>
    /\ final_recipe = None
    /\ files = {}
    /\ tmpdirs = {}
    /\ clones = {}
    /\ returned = None
    /\ raised = None
    /\ log = << >>

----------------------------------------------------------------------------
(* _get_args_from_recipe, step by step *)

Put(d, k, v) == [x \in DOMAIN d \cup {k} |-> IF x = k THEN v ELSE d[x]]

Step(name) == log' = Append(log, name)

Raise(e) ==
    /\ raised' = Some(e)
    /\ pc' = Done
    /\ UNCHANGED returned

Goto(fn, step) ==
    /\ pc' = <<fn, step>>
    /\ UNCHANGED <<returned, raised>>

\* lines 367-368
CheckInstanceType_Unchecked ==
    /\ pc = <<Main, "start">>
    /\ Step("check_instance_type")
    /\ Goto(Main, "load_cfg")
    /\ UNCHANGED <<inputs, compute, locals, effects>>

CheckInstanceType ==
    /\ pc = <<Main, "start">>
    /\ Step("check_instance_type")
    /\ IF compute.instance_type = None
       THEN Raise(ValueError("Must set instance_type in compute when using training recipes."))
       ELSE Goto(Main, "load_cfg")
    /\ UNCHANGED <<inputs, compute, locals, effects>>

\* line 370
LoadRecipesCfg ==
    /\ pc = <<Main, "load_cfg">>
    /\ Step("_load_recipes_cfg")
    /\ training_recipes_cfg' = Some(Registry)
    /\ Goto(Main, "load_recipe")
    /\ UNCHANGED <<inputs, compute, recipe, device_type, args, attempts, final_recipe, effects>>

\* _load_base_recipe, lines 109-112: load the file, merge the overrides
LoadAndMerge(content, overrides) ==
    LET recipe_overrides_ == IF overrides = None THEN EmptyDict ELSE overrides[1]
    IN [cfg |-> OmegaConfMerge(content.cfg, recipe_overrides_), refs |-> content.refs]

\* lines 371-372 with _load_base_recipe lines 78-80: a local .yaml file
LoadLocalRecipe ==
    /\ pc = <<Main, "load_recipe">>
    /\ IsStr(training_recipe) /\ EndsWithYaml(training_recipe) /\ IsFile(training_recipe)
    /\ Step("_load_base_recipe")
    /\ recipe' = Some(LoadAndMerge(training_recipe.content, recipe_overrides))
    /\ Goto(Main, "classify")
    /\ UNCHANGED <<inputs, compute, training_recipes_cfg, device_type, args, attempts,
                   final_recipe, effects>>

\* lines 371-372 with _load_base_recipe lines 81-87: a .yaml that is no local
\* file is fetched; urlretrieve succeeds or raises
LoadRemoteRecipe ==
    /\ pc = <<Main, "load_recipe">>
    /\ IsStr(training_recipe) /\ EndsWithYaml(training_recipe) /\ ~IsFile(training_recipe)
    /\ Step("_load_base_recipe")
    /\ \E fetched \in BOOLEAN :
        IF fetched
        THEN /\ recipe' = Some(LoadAndMerge(training_recipe.content, recipe_overrides))
             /\ Goto(Main, "classify")
        ELSE /\ Raise(ValueError("Could not fetch the provided recipe"))
             /\ UNCHANGED recipe
    /\ UNCHANGED <<inputs, compute, training_recipes_cfg, device_type, args, attempts,
                   final_recipe, effects>>

\* _run_clone_command_silent: the clone is made, or the call raises
CloneFailed == ValueError("clone failed")

\* lines 371-372 with _load_base_recipe lines 88-107: a recipe name
LoadNamedRecipe ==
    /\ pc = <<Main, "load_recipe">>
    /\ IsStr(training_recipe) /\ ~EndsWithYaml(training_recipe)
    /\ Step("_load_base_recipe")
    /\ tmpdirs' = tmpdirs \cup {"launcher_"}
    /\ \E cloned \in BOOLEAN, isfile \in BOOLEAN :
        IF ~cloned
        THEN /\ Raise(CloneFailed)
             /\ UNCHANGED <<recipe, clones>>
        ELSE /\ clones' = clones \cup {<<training_recipes_cfg[1].launcher_repo, "launcher_">>}
             /\ IF isfile
                THEN /\ recipe' = Some(LoadAndMerge(training_recipe.content, recipe_overrides))
                     /\ Goto(Main, "classify")
                ELSE /\ Raise(ValueError("Recipe not found."))
                     /\ UNCHANGED recipe
    /\ UNCHANGED <<inputs, compute, training_recipes_cfg, device_type, args, attempts,
                   final_recipe, files>>

\* lines 373-374: a loaded DictConfig is used as it is
UseLoadedRecipe ==
    /\ pc = <<Main, "load_recipe">>
    /\ ~IsStr(training_recipe)
    /\ Step("use_loaded_recipe")
    /\ recipe' = Some(training_recipe.content)
    /\ Goto(Main, "classify")
    /\ UNCHANGED <<inputs, compute, training_recipes_cfg, device_type, args, attempts,
                   final_recipe, effects>>

\* lines 375-379: where the call goes on after the classification
Route_StandardFirst(is_nova) == <<Main, "check_trainer">>

Route(is_nova) ==
    IF is_nova THEN <<Nova, "instance_count">> ELSE <<Main, "check_trainer">>

\* lines 375-376: the classification and the routing
Classify ==
    /\ pc = <<Main, "classify">>
    /\ Step("_is_nova_recipe")
    /\ pc' = Route(_is_nova_recipe(recipe[1]))
    /\ UNCHANGED <<returned, raised>>
    /\ UNCHANGED <<inputs, compute, locals, effects>>

----------------------------------------------------------------------------
(* The standard path *)

\* lines 379-380
CheckTrainer_Unchecked ==
    /\ pc = <<Main, "check_trainer">>
    /\ Step("check_trainer")
    /\ Goto(Main, "set_instance_count")
    /\ UNCHANGED <<inputs, compute, locals, effects>>

CheckTrainer ==
    /\ pc = <<Main, "check_trainer">>
    /\ Step("check_trainer")
    /\ IF ~Has(recipe[1].cfg, "trainer")
       THEN Raise(ValueError("Supplied recipe does not contain required field trainer."))
       ELSE Goto(Main, "set_instance_count")
    /\ UNCHANGED <<inputs, compute, locals, effects>>

\* lines 382-393
SetInstanceCount_RecipeWins ==
    /\ pc = <<Main, "set_instance_count">>
    /\ LET trainer == recipe[1].cfg.trainer
       IN /\ log' = log \o <<"set_instance_count">>
          /\ IF Has(trainer, "num_nodes")
             THEN /\ compute' = [compute EXCEPT !.instance_count = Some(trainer.num_nodes)]
                  /\ Goto(Main, "check_requirements")
             ELSE IF compute.instance_count = None
             THEN /\ Raise(ValueError("Must provide Compute with instance_count or set trainer -> num_nodes in recipe."))
                  /\ UNCHANGED compute
             ELSE /\ Goto(Main, "check_requirements")
                  /\ UNCHANGED compute
    /\ UNCHANGED <<inputs, locals, effects>>

SetInstanceCount ==
    /\ pc = <<Main, "set_instance_count">>
    /\ LET trainer == recipe[1].cfg.trainer
           warned == TruthyInt(compute.instance_count) /\ Has(trainer, "num_nodes")
       IN /\ log' = log \o <<"set_instance_count">>
                        \o (IF warned THEN <<"logger.warning">> ELSE << >>)
          /\ IF compute.instance_count = None
             THEN IF ~Has(trainer, "num_nodes")
                  THEN /\ Raise(ValueError("Must provide Compute with instance_count or set trainer -> num_nodes in recipe."))
                       /\ UNCHANGED compute
                  ELSE /\ compute' = [compute EXCEPT !.instance_count = Some(trainer.num_nodes)]
                       /\ Goto(Main, "check_requirements")
             ELSE /\ Goto(Main, "check_requirements")
                  /\ UNCHANGED compute
    /\ UNCHANGED <<inputs, locals, effects>>

\* lines 395-396; os.path.isfile answers either way
CheckRequirements ==
    /\ pc = <<Main, "check_requirements">>
    /\ Step("check_requirements")
    /\ \E isfile \in BOOLEAN :
        IF TruthyStr(requirements) /\ ~isfile
        THEN Raise(ValueError("Recipe requirements file not found."))
        ELSE Goto(Main, "determine_device")
    /\ UNCHANGED <<inputs, compute, locals, effects>>

IndexError == Exception("IndexError", "list index out of range", "")

\* lines 399-400
DetermineDevice ==
    /\ pc = <<Main, "determine_device">>
    /\ Step("_determine_device_type")
    /\ IF Len(Split(compute.instance_type[1], ".")) < 2
       THEN /\ Raise(IndexError)
            /\ UNCHANGED <<device_type, tmpdirs>>
       ELSE /\ device_type' = Some(_determine_device_type(compute.instance_type[1]))
            /\ tmpdirs' = tmpdirs \cup {"training_"}
            /\ Goto(Main, "configure")
    /\ UNCHANGED <<inputs, compute, training_recipes_cfg, recipe, args, attempts,
                   final_recipe, files, clones>>

\* sagemaker.image_uris.retrieve raised
RetrieveFailed == Exception("Exception", "image lookup failed", "")

\* the three keys both device builders return
DeviceArgs_NoImage(source_dir, entry_script, training_image, distributed) ==
    [source_code |-> Some([source_dir |-> source_dir, entry_script |-> entry_script,
                           requirements |-> None]),
     training_image |-> None,
     distributed |-> Some(distributed)]

DeviceArgs(source_dir, entry_script, training_image, distributed) ==
    [source_code |-> Some([source_dir |-> source_dir, entry_script |-> entry_script,
                           requirements |-> None]),
     training_image |-> Some(training_image),
     distributed |-> Some(distributed)]

\* lines 401-402 and _configure_gpu_args, lines 159-199
ConfigureGpu ==
    /\ pc = <<Main, "configure">>
    /\ device_type = Some("gpu")
    /\ Step("_configure_gpu_args")
    /\ \E cloned \in BOOLEAN, retrieved \in BOOLEAN :
        LET cfg == recipe[1].cfg
            family == ModelFamily(cfg.model.model_type)
            gpu_image_cfg == training_recipes_cfg[1].gpu_image
        IN IF ~cloned
           THEN /\ Raise(CloneFailed)
                /\ UNCHANGED <<args, clones>>
           ELSE /\ clones' = clones \cup {<<training_recipes_cfg[1].adapter_repo, "training_">>}
                /\ IF ~Has(cfg, "model")
                   THEN /\ Raise(ValueError("Supplied recipe does not contain required field model."))
                        /\ UNCHANGED args
                   ELSE IF ~Has(cfg.model, "model_type")
                   THEN /\ Raise(ValueError("Supplied recipe does not contain required field model_type."))
                        /\ UNCHANGED args
                   ELSE IF family = 0
                   THEN /\ Raise(ValueError("Model type not supported"))
                        /\ UNCHANGED args
                   ELSE IF ~gpu_image_cfg.is_str /\ ~retrieved
                   THEN /\ Raise(RetrieveFailed)
                        /\ UNCHANGED args
                   ELSE /\ args' = DeviceArgs(
                                <<"training_", "examples", model_type_to_script[family][1]>>,
                                model_type_to_script[family][3],
                                gpu_image_cfg.value,
                                [type |-> "Torchrun", smp |-> Some([random_seed |-> "123456"])])
                        /\ Goto(Main, "resolve_root")
    /\ UNCHANGED <<inputs, compute, training_recipes_cfg, recipe, device_type, attempts,
                   final_recipe, files, tmpdirs>>

\* lines 403-404 and _configure_trainium_args, lines 208-234
ConfigureTrainium ==
    /\ pc = <<Main, "configure">>
    /\ device_type = Some("trainium")
    /\ Step("_configure_trainium_args")
    /\ \E cloned \in BOOLEAN, retrieved \in BOOLEAN :
        LET neuron_image_cfg == training_recipes_cfg[1].neuron_image
        IN IF ~cloned
           THEN /\ Raise(CloneFailed)
                /\ UNCHANGED <<args, clones>>
           ELSE /\ clones' = clones \cup {<<training_recipes_cfg[1].neuron_dist_repo, "training_">>}
                /\ IF ~neuron_image_cfg.is_str /\ ~retrieved
                   THEN /\ Raise(RetrieveFailed)
                        /\ UNCHANGED args
                   ELSE /\ args' = DeviceArgs(
                                <<"training_", "examples">>,
                                "training_orchestrator.py",
                                neuron_image_cfg.value,
                                [type |-> "Torchrun", smp |-> None])
                        /\ Goto(Main, "resolve_root")
    /\ UNCHANGED <<inputs, compute, training_recipes_cfg, recipe, device_type, attempts,
                   final_recipe, files, tmpdirs>>

\* lines 405-406
UnsupportedDevice ==
    /\ pc = <<Main, "configure">>
    /\ device_type \notin {Some("gpu"), Some("trainium")}
    /\ Step("unsupported_device")
    /\ Raise(Exception("ValueError", "Devices of this type are not supported with training recipes.",
                       device_type[1]))
    /\ UNCHANGED <<inputs, compute, locals, effects>>

----------------------------------------------------------------------------
(* Expression resolution, the same three tries on both paths:             *)
(* lines 408-417 of _get_args_from_recipe, 307-316 of the nova builder    *)

TryResolve(key) ==
    /\ final_recipe' = _try_resolve_recipe(recipe[1], key)
    /\ attempts' = Append(attempts, key)

\* lines 411 / 310
ResolveRoot(fn) ==
    /\ pc = <<fn, "resolve_root">>
    /\ Step("resolve")
    /\ TryResolve(None)
    /\ Goto(fn, "resolve_recipes")
    /\ UNCHANGED <<inputs, compute, training_recipes_cfg, recipe, device_type, args, effects>>

\* lines 412-413 / 311-312
ResolveRecipes_Unconditional(fn) ==
    /\ pc = <<fn, "resolve_recipes">>
    /\ Step("resolve")
    /\ TryResolve(Some("recipes"))
    /\ Goto(fn, "resolve_training")
    /\ UNCHANGED <<inputs, compute, training_recipes_cfg, recipe, device_type, args, effects>>

ResolveRecipes(fn) ==
    /\ pc = <<fn, "resolve_recipes">>
    /\ Step("resolve")
    /\ IF final_recipe = None
       THEN TryResolve(Some("recipes"))
       ELSE UNCHANGED <<final_recipe, attempts>>
    /\ Goto(fn, "resolve_training")
    /\ UNCHANGED <<inputs, compute, training_recipes_cfg, recipe, device_type, args, effects>>

\* lines 414-417 / 313-316
ResolveTraining(fn) ==
    /\ pc = <<fn, "resolve_training">>
    /\ Step("resolve")
    /\ IF final_recipe = None
       THEN TryResolve(Some("training"))
       ELSE UNCHANGED <<final_recipe, attempts>>
    /\ IF final_recipe' = None
       THEN Raise(RuntimeError("Could not resolve provided recipe."))
       ELSE Goto(fn, "save")
    /\ UNCHANGED <<inputs, compute, training_recipes_cfg, recipe, device_type, args, effects>>

RecipeFile(dir, content) == [dir |-> dir, name |-> SM_RECIPE_YAML, content |-> content]

\* lines 419-437
SaveAndReturn ==
    /\ pc = <<Main, "save">>
    /\ Step("save")
    /\ LET source_code == args.source_code[1]
           copied == IF TruthyStr(requirements)
                     THEN [source_code EXCEPT !.requirements = requirements]
                     ELSE source_code
           result == [source_code |-> Some(copied),
                      training_image |-> args.training_image,
                      distributed |-> args.distributed,
                      compute |-> CallerCompute,
                      hyperparameters |-> ("config-path" :> ".") @@ ("config-name" :> SM_RECIPE_YAML)]
       IN /\ files' = files \cup {RecipeFile(source_code.source_dir, final_recipe[1])}
          /\ args' = result
          /\ returned' = Some(<<result, "training_">>)
    /\ pc' = Done
    /\ UNCHANGED <<inputs, compute, training_recipes_cfg, recipe, device_type, attempts,
                   final_recipe, tmpdirs, clones, raised>>

----------------------------------------------------------------------------
(* The alternate path: _get_args_from_nova_recipe *)

\* lines 276-278
NovaInstanceCount ==
    /\ pc = <<Nova, "instance_count">>
    /\ Step("nova_instance_count")
    /\ LET replicas == Get(Section(recipe[1].cfg, "run"), "replicas")
       IN IF ~TruthyInt(compute.instance_count) /\ ~TruthyInt(replicas)
          THEN /\ Raise(ValueError("Must set instance_type in compute or replicas in recipe."))
               /\ UNCHANGED compute
          ELSE /\ compute' = [compute EXCEPT !.instance_count =
                                 IF TruthyInt(compute.instance_count)
                                 THEN compute.instance_count ELSE replicas]
               /\ Goto(Nova, "hyperparameters")
    /\ UNCHANGED <<inputs, locals, effects>>

\* lines 283-289: the base model
BaseModel(cfg) ==
    LET model_name_or_path == Get(Section(cfg, "run"), "model_name_or_path")
    IN IF ~TruthyStr(model_name_or_path) THEN EmptyDict
       ELSE IF StartsWith(model_name_or_path[1], <<"s", "3", ":", "/", "/">>)
       THEN [base_model_location |-> model_name_or_path[1]]
       ELSE [base_model |-> model_name_or_path[1]]

\* lines 280-305: the hyperparameters built, and the error raised if any
NovaHyperparametersOf_RoleNotNone(cfg, role_) ==
    LET training_config == Section(cfg, "training_config")
        distillation_data == Get(training_config, "distillation_data")
        kms_key == Get(training_config, "kms_key")
        base == BaseModel(cfg)
        with_data == Put(base, "distillation_data", distillation_data[1])
        with_role == Put(with_data, "role_arn", IF role_ = None THEN << >> ELSE role_[1])
    IN IF ~TruthyStr(distillation_data)
       THEN [hyperparameters |-> base, error |-> None]
       ELSE IF role_ = None
       THEN [hyperparameters |-> with_data,
             error |-> Some(ValueError("Must provide role parameter when using Nova distillation"))]
       ELSE IF kms_key = None
       THEN [hyperparameters |-> with_role,
             error |-> Some(ValueError("Nova distillation job recipe requires kms_key field in training_config"))]
       ELSE [hyperparameters |-> Put(with_role, "kms_key", kms_key[1]), error |-> None]

NovaHyperparametersOf(cfg, role_) ==
    LET training_config == Section(cfg, "training_config")
        distillation_data == Get(training_config, "distillation_data")
        kms_key == Get(training_config, "kms_key")
        base == BaseModel(cfg)
        with_data == Put(base, "distillation_data", distillation_data[1])
        with_role == Put(with_data, "role_arn", role_[1])
    IN IF ~TruthyStr(distillation_data)
       THEN [hyperparameters |-> base, error |-> None]
       ELSE IF ~TruthyStr(role_)
       THEN [hyperparameters |-> with_data,
             error |-> Some(ValueError("Must provide role parameter when using Nova distillation"))]
       ELSE IF kms_key = None
       THEN [hyperparameters |-> with_role,
             error |-> Some(ValueError("Nova distillation job recipe requires kms_key field in training_config"))]
       ELSE [hyperparameters |-> Put(with_role, "kms_key", kms_key[1]), error |-> None]

\* lines 280-305
NovaHyperparameters ==
    /\ pc = <<Nova, "hyperparameters">>
    /\ Step("nova_hyperparameters")
    /\ LET built == NovaHyperparametersOf(recipe[1].cfg, role)
       IN /\ args' = [hyperparameters |-> built.hyperparameters]
          /\ IF built.error # None
             THEN Raise(built.error[1])
             ELSE Goto(Nova, "resolve_root")
    /\ UNCHANGED <<inputs, compute, training_recipes_cfg, recipe, device_type, attempts,
                   final_recipe, effects>>

\* lines 318-331, and the return at lines 376-377
NovaSaveAndReturn ==
    /\ pc = <<Nova, "save">>
    /\ Step("nova_save")
    /\ LET result == [hyperparameters |-> args.hyperparameters,
                      compute |-> CallerCompute,
                      training_image |-> None,
                      source_code |-> None,
                      distributed |-> None]
       IN /\ tmpdirs' = tmpdirs \cup {"recipe_"}
          /\ files' = files \cup {RecipeFile(<<"recipe_">>, final_recipe[1])}
          /\ args' = result
          /\ returned' = Some(<<result, "recipe_">>)
    /\ pc' = Done
    /\ UNCHANGED <<inputs, compute, training_recipes_cfg, recipe, device_type, attempts,
                   final_recipe, clones, raised>>

----------------------------------------------------------------------------

Next ==
    \/ CheckInstanceType
    \/ LoadRecipesCfg
    \/ LoadLocalRecipe
    \/ LoadRemoteRecipe
    \/ LoadNamedRecipe
    \/ UseLoadedRecipe
    \/ Classify
    \/ CheckTrainer
    \/ SetInstanceCount
    \/ CheckRequirements
    \/ DetermineDevice
    \/ ConfigureGpu
    \/ ConfigureTrainium
    \/ UnsupportedDevice
    \/ \E fn \in {Main, Nova} : ResolveRoot(fn) \/ ResolveRecipes(fn) \/ ResolveTraining(fn)
    \/ SaveAndReturn
    \/ NovaInstanceCount
    \/ NovaHyperparameters
    \/ NovaSaveAndReturn

Spec == Init /\ [][Next]_vars

----------------------------------------------------------------------------
(* Properties *)

InLog(step) == \E i \in DOMAIN log : log[i] = step
Finished == pc = Done
Started == pc # <<Main, "start">>

StandardSteps ==
    {"check_trainer", "set_instance_count", "logger.warning", "check_requirements",
     "_determine_device_type", "_configure_gpu_args", "_configure_trainium_args",
     "unsupported_device", "save"}
NovaSteps == {"nova_instance_count", "nova_hyperparameters", "nova_save"}

OnStandardPath == InLog("check_trainer")
OnNovaPath == InLog("nova_instance_count")

\* C1: a call whose compute.instance_type is None raises the ValueError of
\* the instance_type check and returns nothing, whatever the other arguments
\* are, and the check is the first and only step taken: no registry, no
\* recipe, no classification, no temporary directory, no clone.
C1_InstanceTypeRequired ==
    /\ (compute.instance_type = None /\ Started) =>
          /\ raised = Some(ValueError("Must set instance_type in compute when using training recipes."))
          /\ returned = None
          /\ Finished
          /\ log = <<"check_instance_type">>
          /\ training_recipes_cfg = None
          /\ recipe = None
          /\ tmpdirs = {} /\ clones = {} /\ files = {}
    /\ log # << >> => log[1] = "check_instance_type"

C1_Witness ==
    /\ compute.instance_type = None
    /\ Finished
    /\ raised # None
    /\ training_recipe.form = "name"
    /\ recipe_overrides # None /\ requirements # None /\ role # None

\* C2: a recipe classified nova takes only nova-builder steps and none of the
\* standard path's; a recipe classified standard never enters the nova
\* builder; and every step of either path comes after the classification.
C2_ExclusiveRouting ==
    /\ (recipe # None /\ _is_nova_recipe(recipe[1])) =>
          /\ \A i \in DOMAIN log : log[i] \notin StandardSteps
          /\ pc[1] = Main => pc[2] = "classify"
    /\ (recipe # None /\ ~_is_nova_recipe(recipe[1])) =>
          /\ \A i \in DOMAIN log : log[i] \notin NovaSteps
          /\ pc[1] # Nova
    /\ \A i \in DOMAIN log :
          log[i] \in StandardSteps \cup NovaSteps =>
              \E j \in 1..(i - 1) : log[j] = "_is_nova_recipe"
    /\ ~(OnStandardPath /\ OnNovaPath)

C2_Witness ==
    /\ returned # None
    /\ OnNovaPath
    /\ Has(recipe[1].cfg, "trainer")

\* C4: the device class stored is gpu for a family starting with p or g,
\* trainium for a family starting with trn, cpu otherwise; the gpu builder
\* runs only for gpu, the trainium builder only for trainium, and for any
\* other class the call raises the ValueError naming the class, with no
\* builder run, no resolution tried, no file written and nothing returned.
FamilyOf(instance_type) == Split(instance_type[1], ".")[2]

C4_DeviceClass ==
    device_type # None =>
        LET family == FamilyOf(compute.instance_type)
            first == SubSeq(family, 1, 1)
            class == device_type[1]
        IN /\ class = "gpu" <=> first \in {<<"p">>, <<"g">>}
           /\ class = "trainium" <=> (Len(family) >= 3 /\ SubSeq(family, 1, 3) = <<"t", "r", "n">>)
           /\ class = "cpu" <=> ~(class = "gpu" \/ class = "trainium")
           /\ InLog("_configure_gpu_args") =>
                 class = "gpu" /\ ~InLog("_configure_trainium_args")
           /\ InLog("_configure_trainium_args") =>
                 class = "trainium" /\ ~InLog("_configure_gpu_args")
           /\ (class = "cpu" /\ pc # <<Main, "configure">>) =>
                 /\ raised = Some(Exception("ValueError",
                        "Devices of this type are not supported with training recipes.", class))
                 /\ ~InLog("_configure_gpu_args") /\ ~InLog("_configure_trainium_args")
                 /\ attempts = << >> /\ final_recipe = None
                 /\ files = {}
                 /\ returned = None

C4_Witness ==
    /\ device_type = Some("cpu")
    /\ FamilyOf(compute.instance_type) = <<"t", "3">>
    /\ Finished
    /\ raised # None

\* C3: for every form of recipe reference, the recipe that is classified,
\* resolved and persisted carries the override's value at every key path the
\* overrides have, and the loaded recipe's value at every other path.
Merged(cfg, loaded, ov) ==
    /\ \A k \in DOMAIN ov :
          /\ Has(cfg, k)
          /\ \A x \in DOMAIN ov[k] : Has(cfg[k], x) /\ cfg[k][x] = ov[k][x]
    /\ \A k \in DOMAIN loaded :
          /\ Has(cfg, k)
          /\ \A x \in DOMAIN loaded[k] :
                /\ Has(cfg[k], x)
                /\ ~(Has(ov, k) /\ Has(ov[k], x)) => cfg[k][x] = loaded[k][x]

C3_OverridePrecedence ==
    (recipe # None /\ recipe_overrides # None) =>
        /\ Merged(recipe[1].cfg, training_recipe.content.cfg, recipe_overrides[1])
        /\ final_recipe # None => final_recipe = recipe
        /\ \A f \in files : f.content = recipe[1]

\* C3, for the references that are strings (path, URL, name) only
C3_StringReferences ==
    IsStr(training_recipe) => C3_OverridePrecedence

\* C5 as stated: in the nova builder, past the instance-count check, with
\* distillation data present (read as: non-empty): no role (None or empty)
\* raises ValueError, no kms_key raises ValueError, and with both supplied the
\* call succeeds, its hyperparameters holding distillation_data, role_arn =
\* role and kms_key = training_config.kms_key; with no distillation data none
\* of the three keys is set.
DistillationKeys == {"distillation_data", "role_arn", "kms_key"}
TrainingConfig == Section(recipe[1].cfg, "training_config")
RaisedType(t) == raised # None /\ raised[1].type = t

C5_Distillation ==
    (InLog("nova_hyperparameters") /\ Finished) =>
        LET present == /\ Has(TrainingConfig, "distillation_data")
                       /\ TrainingConfig.distillation_data # << >>
            hp == args.hyperparameters
            has_role == role # None /\ role[1] # << >>
        IN /\ (present /\ ~has_role) => RaisedType("ValueError")
           /\ (present /\ ~Has(TrainingConfig, "kms_key")) => RaisedType("ValueError")
           /\ (present /\ has_role /\ Has(TrainingConfig, "kms_key")) =>
                 /\ returned # None
                 /\ DistillationKeys \subseteq DOMAIN hp
                 /\ hp["distillation_data"] = TrainingConfig.distillation_data
                 /\ hp["role_arn"] = role[1]
                 /\ hp["kms_key"] = TrainingConfig.kms_key
           /\ ~present => DistillationKeys \cap DOMAIN hp = {}

\* C5 amended: with NON-EMPTY distillation data: a role that is None or empty
\* raises the role ValueError; otherwise a missing kms_key raises the kms_key
\* ValueError; with both supplied the call either raises the RuntimeError of
\* a recipe no root resolves, or returns a bundle whose hyperparameters hold
\* distillation_data, role_arn = role and kms_key = training_config.kms_key.
\* With distillation data absent or empty none of the three keys is set.
NoRootResolves == \A i \in DOMAIN Roots : ~Resolves(recipe[1], Roots[i])

C5_DistillationAmended ==
    (InLog("nova_hyperparameters") /\ Finished) =>
        LET nonempty == /\ Has(TrainingConfig, "distillation_data")
                        /\ TrainingConfig.distillation_data # << >>
            hp == args.hyperparameters
            has_role == role # None /\ role[1] # << >>
        IN /\ (nonempty /\ ~has_role) =>
                 /\ raised = Some(ValueError("Must provide role parameter when using Nova distillation"))
                 /\ returned = None
           /\ (nonempty /\ has_role /\ ~Has(TrainingConfig, "kms_key")) =>
                 /\ raised = Some(ValueError("Nova distillation job recipe requires kms_key field in training_config"))
                 /\ returned = None
           /\ (nonempty /\ has_role /\ Has(TrainingConfig, "kms_key")) =>
                 IF NoRootResolves
                 THEN /\ raised = Some(RuntimeError("Could not resolve provided recipe."))
                      /\ returned = None
                 ELSE /\ returned # None
                      /\ DistillationKeys \subseteq DOMAIN returned[1][1].hyperparameters
                      /\ returned[1][1].hyperparameters["distillation_data"] = TrainingConfig.distillation_data
                      /\ returned[1][1].hyperparameters["role_arn"] = role[1]
                      /\ returned[1][1].hyperparameters["kms_key"] = TrainingConfig.kms_key
           /\ ~nonempty => DistillationKeys \cap DOMAIN hp = {}

C5_Witness ==
    /\ returned # None
    /\ DistillationKeys \subseteq DOMAIN returned[1][1].hyperparameters
    /\ returned[1][1].hyperparameters["role_arn"] = Arn
    /\ role = Some(Arn)
    /\ training_recipe.form = "object"

\* C6: a returned bundle has exactly the keys source_code, training_image,
\* distributed, compute, hyperparameters; on the standard path the first
\* three are set and hyperparameters is {config-path, config-name} naming the
\* recipe file written to the source directory; on the nova path the first
\* three are None. A call that raised returned nothing, and a finished call
\* did exactly one of the two.
BundleKeys == {"source_code", "training_image", "distributed", "compute", "hyperparameters"}

C6_CompleteBundle ==
    /\ returned # None =>
          LET bundle == returned[1][1] IN
          /\ DOMAIN bundle = BundleKeys
          /\ raised = None
          /\ OnStandardPath \/ OnNovaPath
          /\ OnStandardPath =>
                /\ bundle.source_code # None
                /\ bundle.training_image # None
                /\ bundle.distributed # None
                /\ DOMAIN bundle.hyperparameters = {"config-path", "config-name"}
                /\ bundle.hyperparameters["config-path"] = "."
                /\ \E f \in files :
                      /\ f.dir = bundle.source_code[1].source_dir
                      /\ f.name = bundle.hyperparameters["config-name"]
          /\ OnNovaPath =>
                /\ bundle.source_code = None
                /\ bundle.training_image = None
                /\ bundle.distributed = None
    /\ raised # None => returned = None
    /\ Finished => (returned # None \/ raised # None)

C6_Witness ==
    /\ returned # None
    /\ OnStandardPath
    /\ device_type = Some("gpu")
    /\ requirements # None
    /\ returned[1][1].source_code[1].requirements = requirements

\* C7 as stated: a recipe for which the standard path returns a bundle has
\* trainer, model and model.model_type, and on an instance type of the gpu or
\* the trainium class a standard-path recipe missing any of the three makes
\* the call raise ValueError.
Cfg == recipe[1].cfg
HasModelType == Has(Cfg, "model") /\ Has(Cfg.model, "model_type")
HasFamily == Len(Split(compute.instance_type[1], ".")) >= 2
ClassOfCall ==
    LET family == FamilyOf(compute.instance_type)
    IN IF Head(family) \in {"p", "g"} THEN "gpu"
       ELSE IF StartsWith(family, <<"t", "r", "n">>) THEN "trainium"
       ELSE "cpu"

C7_RequiredFields ==
    OnStandardPath =>
        /\ returned # None => Has(Cfg, "trainer") /\ HasModelType
        /\ (Finished /\ HasFamily /\ ClassOfCall \in {"gpu", "trainium"}
              /\ ~(Has(Cfg, "trainer") /\ HasModelType)) => RaisedType("ValueError")

\* C7 amended: a recipe for which the standard path returns a bundle has
\* trainer, and if the gpu builder built the bundle it has model and
\* model.model_type as well; a standard-path recipe without trainer raises the
\* trainer ValueError whatever the instance type is; a recipe without model or
\* model.model_type that reaches the gpu builder makes the call fail, with
\* the ValueError naming the missing field once the adapter clone is made.
\* The trainium builder does not look at the recipe: there a recipe without
\* model is accepted.
C7_RequiredFieldsAmended ==
    OnStandardPath =>
        /\ returned # None =>
              /\ Has(Cfg, "trainer")
              /\ InLog("_configure_gpu_args") => HasModelType
        /\ ~Has(Cfg, "trainer") =>
              /\ raised = Some(ValueError("Supplied recipe does not contain required field trainer."))
              /\ log[Len(log)] = "check_trainer"
        /\ (InLog("_configure_gpu_args") /\ ~HasModelType) =>
              /\ returned = None
              /\ raised # None
              /\ <<Registry.adapter_repo, "training_">> \in clones =>
                    raised = Some(ValueError(
                        IF ~Has(Cfg, "model")
                        THEN "Supplied recipe does not contain required field model."
                        ELSE "Supplied recipe does not contain required field model_type."))

C7_Witness ==
    /\ returned # None
    /\ InLog("_configure_trainium_args")
    /\ ~Has(Cfg, "model")

C7_WitnessGpu ==
    /\ InLog("_configure_gpu_args")
    /\ Has(Cfg, "model") /\ ~Has(Cfg.model, "model_type")
    /\ raised = Some(ValueError("Supplied recipe does not contain required field model_type."))

\* C8 as stated: the call is routed to the nova builder exactly when
\* (run.model_type, lower-cased, contains amazon.nova and run has
\* model_name_or_path) or (training_config.distillation_data is present and
\* non-empty); an empty distillation_data without the marker is standard.
RoutedNova == pc[1] = Nova \/ OnNovaPath
RunConfig == Section(Cfg, "run")
HasMarker ==
    /\ Has(RunConfig, "model_type")
    /\ \E i \in 1..Len(RunConfig.model_type) :
          /\ i + Len(NovaMarker) - 1 <= Len(RunConfig.model_type)
          /\ \A j \in 1..Len(NovaMarker) :
                LowerChar(RunConfig.model_type[i + j - 1]) = NovaMarker[j]
HasNovaModel == HasMarker /\ Has(RunConfig, "model_name_or_path")

C8_Classifier ==
    InLog("_is_nova_recipe") =>
        (RoutedNova <=>
            \/ HasNovaModel
            \/ /\ Has(TrainingConfig, "distillation_data")
               /\ TrainingConfig.distillation_data # << >>)

\* C8 amended: the call is routed to the nova builder exactly when
\* (run.model_type, lower-cased, contains amazon.nova and run has
\* model_name_or_path) or training_config.distillation_data is present,
\* empty or not; every other recipe is standard.
C8_ClassifierAmended ==
    InLog("_is_nova_recipe") =>
        (RoutedNova <=> (HasNovaModel \/ Has(TrainingConfig, "distillation_data")))

C8_Witness ==
    /\ InLog("_is_nova_recipe")
    /\ RoutedNova
    /\ HasNovaModel
    /\ RunConfig.model_type # Lower(RunConfig.model_type)
    /\ ~Has(TrainingConfig, "distillation_data")

C8_WitnessEmpty ==
    /\ RoutedNova
    /\ Has(TrainingConfig, "distillation_data")
    /\ TrainingConfig.distillation_data = << >>
    /\ ~HasNovaModel

\* C9: on both paths the roots are tried in the order recipe, "recipes",
\* "training"; a root is tried only if every root before it failed; the
\* recipe written is the one the first resolving root gave; and if all three
\* fail the call raises RuntimeError, writes no file and returns nothing.
C9_ResolutionOrder ==
    /\ Len(attempts) <= Len(Roots)
    /\ \A i \in DOMAIN attempts :
          /\ attempts[i] = Roots[i]
          /\ \A j \in 1..(i - 1) : ~Resolves(recipe[1], Roots[j])
    /\ final_recipe # None =>
          /\ attempts # << >>
          /\ Resolves(recipe[1], attempts[Len(attempts)])
          /\ final_recipe = recipe
    /\ \A f \in files : final_recipe # None /\ f.content = final_recipe[1]
    /\ returned # None => final_recipe # None /\ files # {}
    /\ (attempts = Roots /\ final_recipe = None) =>
          /\ raised = Some(RuntimeError("Could not resolve provided recipe."))
          /\ files = {}
          /\ returned = None
    /\ (pc[2] = "resolve_training" /\ final_recipe = None) => Len(attempts) = 2
    /\ (pc[2] = "resolve_recipes" /\ final_recipe = None) => Len(attempts) = 1

C9_Witness ==
    /\ OnNovaPath
    /\ returned # None
    /\ attempts = Roots
    /\ ~Resolves(recipe[1], None) /\ ~Resolves(recipe[1], Some("recipes"))

C9_WitnessFirstRoot ==
    /\ OnStandardPath
    /\ returned # None
    /\ attempts = <<None>>
    /\ Resolves(recipe[1], Some("recipes"))

C9_WitnessFatal ==
    /\ OnStandardPath
    /\ attempts = Roots
    /\ RaisedType("RuntimeError")

\* C10 as stated, for every step of a call on the standard path: a count the
\* caller supplied is never changed; an absent count is set, in the caller's
\* own object, to trainer.num_nodes; with both absent the call raises
\* ValueError with no device class chosen and no clone made; instance_type
\* never changes; and the bundle's compute is the caller's object.
BothAbsent ==
    ValueError("Must provide Compute with instance_count or set trainer -> num_nodes in recipe.")

Reconciled ==
    /\ compute'.instance_type = compute.instance_type
    /\ OnStandardPath' =>
          /\ compute.instance_count # None => compute' = compute
          /\ compute' # compute =>
                /\ pc = <<Main, "set_instance_count">>
                /\ compute'.instance_count = Some(Cfg.trainer.num_nodes)
          /\ (pc = <<Main, "set_instance_count">> /\ compute.instance_count = None) =>
                IF Has(Cfg.trainer, "num_nodes")
                THEN /\ compute'.instance_count = Some(Cfg.trainer.num_nodes)
                     /\ raised' = None
                ELSE /\ raised' = Some(BothAbsent)
                     /\ compute' = compute
          /\ raised' = Some(BothAbsent) =>
                /\ compute.instance_count = None /\ ~Has(Cfg.trainer, "num_nodes")
                /\ device_type' = None
          /\ returned' # None => returned'[1][1].compute = CallerCompute

C10_InstanceCount ==
    [][Reconciled /\ (raised' = Some(BothAbsent) => clones' = {})]_vars

\* C10 amended: as stated, except that "no clone" is no clone by a device
\* builder: when the recipe was given by name, _load_base_recipe has already
\* cloned the launcher repository by the time the count is reconciled.
C10_InstanceCountAmended ==
    [][Reconciled /\ (raised' = Some(BothAbsent) =>
            /\ "training_" \notin tmpdirs'
            /\ \A c \in clones' : c = <<Registry.launcher_repo, "launcher_">>
            /\ clones' # {} => training_recipe.form = "name")]_vars

C10_Witness ==
    /\ returned # None
    /\ OnStandardPath
    /\ Has(Cfg.trainer, "num_nodes")
    /\ Cfg.trainer.num_nodes = MaxNumNodes
    /\ MaxNumNodes > MaxInstanceCount
    /\ compute.instance_count = Some(MaxNumNodes)

C10_WitnessCallerWins ==
    /\ returned # None
    /\ OnStandardPath
    /\ InLog("logger.warning")
    /\ compute.instance_count = Some(1)
    /\ Cfg.trainer.num_nodes = MaxNumNodes

====
